---- MODULE Spec2Model ----
(***************************************************************************)
(* PDF Hybrid Search (src/app.py): a Streamlit script that chunks uploaded *)
(* PDF text, builds a BM25 and a FAISS retriever behind st.cache_resource  *)
(* and fuses their rankings with an EnsembleRetriever.                     *)
(*                                                                         *)
(* Text is a sequence of one-character strings.  The chunk size and the    *)
(* overlap keep the source's 5:1 ratio at a size TLC can enumerate.        *)
(***************************************************************************)
EXTENDS Integers, Sequences, FiniteSets, TLC

VARIABLES
    text,            \* chunker: the raw text handed to process_pdf_text
    chunks,          \* chunker: the list process_pdf_text returned
    cpc,             \* chunker: "input" before the call, "split" after it
    processed_docs,  \* st.session_state.processed_docs of each session
    pc,              \* where each session's script run stands
    loc,             \* the script run's variables, per session
    cache,           \* st.cache_resource entries of initialize_retrievers
    lock,            \* the cache's per-key compute lock: its holder
    bodyRuns,        \* history: runs of the build body per (corpus, key)
    failures,        \* embedding-provider failures so far
    upload,          \* history: the files and the corpus each run began with
    rdocs,           \* ranking: the corpus the retrievers were built from
    weights,         \* ranking: the EnsembleRetriever's weights, in tenths
    rquery,          \* ranking: the search query
    scores,          \* ranking: the BM25 score of each chunk for the query
    bm25_top,        \* ranking: chunk indices the BM25 retriever returned
    faiss_top,       \* ranking: chunk indices the FAISS retriever returned
    ensemble,        \* ranking: page contents the ensemble returned
    rpc              \* ranking: the last retriever that answered

cvars == <<text, chunks, cpc>>
avars == <<processed_docs, pc, loc, cache, lock, bodyRuns, failures, upload>>
rvars == <<rdocs, weights, rquery, scores, bm25_top, faiss_top, ensemble, rpc>>
vars == <<text, chunks, cpc, processed_docs, pc, loc, cache, lock, bodyRuns,
          failures, upload, rdocs, weights, rquery, scores, bm25_top,
          faiss_top, ensemble, rpc>>

----------------------------------------------------------------------------
(* Bounds of the model *)

MaxLen == 8          \* longest raw text handed to the chunker
MaxUploadFiles == 2  \* most files in one upload, one session alone
MaxRankFiles == 2    \* most files behind a corpus that is searched
MaxFailures == 1     \* embedding-provider failures

----------------------------------------------------------------------------
(* process_pdf_text: RecursiveCharacterTextSplitter, src/app.py:35-44 *)

chunk_size == 5      \* chunk_size=1000, scaled
chunk_overlap == 1   \* chunk_overlap=200, scaled

NL == "\n"
Alphabet == {"a", " ", NL, "."}
Whitespace == {" ", NL}

SeparatorsNoHardSplit == << <<NL, NL>>, <<NL>>, <<".", " ">>, <<" ">> >>

\* separators=["\n\n", "\n", ". ", " ", ""]
Separators == << <<NL, NL>>, <<NL>>, <<".", " ">>, <<" ">>, <<>> >>

Tail2(s, n) == SubSeq(s, n + 1, Len(s))

MatchAt(t, sep, i) ==
    /\ i + Len(sep) - 1 <= Len(t)
    /\ SubSeq(t, i, i + Len(sep) - 1) = sep

\* re.search(re.escape(sep), t)
Contains(t, sep) == \E i \in 1..Len(t) : MatchAt(t, sep, i)

DropEmpty(ss) == SelectSeq(ss, LAMBDA s : s /= <<>>)

\* re.split("(sep)", t) with each separator glued to the piece after it:
\* pieces t0, sep+t1, sep+t2, ...  (start = first index of the open piece)
RECURSIVE Cut(_, _, _, _, _)
Cut(t, sep, i, start, acc) ==
    IF i > Len(t)
    THEN Append(acc, SubSeq(t, start, Len(t)))
    ELSE IF MatchAt(t, sep, i)
         THEN Cut(t, sep, i + Len(sep), i, Append(acc, SubSeq(t, start, i - 1)))
         ELSE Cut(t, sep, i + 1, start, acc)

\* _split_text_with_regex(text, separator, keep_separator=True)
SplitTextWithRegex(t, sep) ==
    IF sep /= <<>>
    THEN DropEmpty(Cut(t, sep, 1, 1, <<>>))
    ELSE [i \in 1..Len(t) |-> <<t[i]>>]

RECURSIVE Join(_, _)
Join(docs, sep) ==
    IF docs = <<>> THEN <<>>
    ELSE IF Len(docs) = 1 THEN docs[1]
    ELSE docs[1] \o sep \o Join(Tail(docs), sep)

RECURSIVE LStrip(_)
LStrip(t) == IF t /= <<>> /\ t[1] \in Whitespace THEN LStrip(Tail(t)) ELSE t

RECURSIVE RStrip(_)
RStrip(t) ==
    IF t /= <<>> /\ t[Len(t)] \in Whitespace
    THEN RStrip(SubSeq(t, 1, Len(t) - 1)) ELSE t

\* str.strip()
Strip(t) == RStrip(LStrip(t))

\* _join_docs: the joined text stripped; <<>> stands for None
JoinDocs(docs, sep) == Strip(Join(docs, sep))

SepCost(sepLen, n, least) == IF n > least THEN sepLen ELSE 0

\* the inner "while total > chunk_overlap or (... > chunk_size and total > 0)"
RECURSIVE PopWhile(_, _, _, _)
PopWhile(cur, total, dlen, sepLen) ==
    IF \/ total > chunk_overlap
       \/ /\ total + dlen + SepCost(sepLen, Len(cur), 0) > chunk_size
          /\ total > 0
    THEN PopWhile(Tail(cur),
                  total - (Len(cur[1]) + SepCost(sepLen, Len(cur), 1)),
                  dlen, sepLen)
    ELSE [cur |-> cur, total |-> total]

AppendDoc(docs, doc) == IF doc = <<>> THEN docs ELSE Append(docs, doc)

\* _merge_splits(splits, separator)
RECURSIVE MergeLoop(_, _, _, _, _, _)
MergeLoop(splits, sep, i, docs, cur, total) ==
    IF i > Len(splits)
    THEN AppendDoc(docs, JoinDocs(cur, sep))
    ELSE
      LET d == splits[i]
          over == total + Len(d) + SepCost(Len(sep), Len(cur), 0) > chunk_size
          flushed == IF over /\ Len(cur) > 0
                     THEN AppendDoc(docs, JoinDocs(cur, sep)) ELSE docs
          kept == IF over /\ Len(cur) > 0
                  THEN PopWhile(cur, total, Len(d), Len(sep))
                  ELSE [cur |-> cur, total |-> total]
          cur2 == Append(kept.cur, d)
      IN MergeLoop(splits, sep, i + 1, flushed, cur2,
                   kept.total + Len(d) + SepCost(Len(sep), Len(cur2), 1))

MergeSplits(splits, sep) == MergeLoop(splits, sep, 1, <<>>, <<>>, 0)

\* the first separator of the list that is "" or occurs in the text
RECURSIVE PickSeparator(_, _, _)
PickSeparator(t, seps, i) ==
    IF i > Len(seps)
    THEN [sep |-> seps[Len(seps)], rest |-> <<>>]
    ELSE IF seps[i] = <<>>
         THEN [sep |-> <<>>, rest |-> <<>>]
         ELSE IF Contains(t, seps[i])
              THEN [sep |-> seps[i], rest |-> Tail2(seps, i)]
              ELSE PickSeparator(t, seps, i + 1)

\* RecursiveCharacterTextSplitter._split_text(text, separators); pieces are
\* merged with "" because keep_separator is on
RECURSIVE SplitText(_, _)
RECURSIVE SplitLoop(_, _, _, _, _)
SplitLoop(splits, rest, i, good, final) ==
    IF i > Len(splits)
    THEN IF good /= <<>> THEN final \o MergeSplits(good, <<>>) ELSE final
    ELSE
      LET s == splits[i] IN
      IF Len(s) < chunk_size
      THEN SplitLoop(splits, rest, i + 1, Append(good, s), final)
      ELSE
        LET merged == IF good /= <<>> THEN final \o MergeSplits(good, <<>>)
                      ELSE final
            other == IF rest = <<>> THEN <<s>> ELSE SplitText(s, rest)
        IN SplitLoop(splits, rest, i + 1, <<>>, merged \o other)

SplitText(t, seps) ==
    LET p == PickSeparator(t, seps, 1)
    IN SplitLoop(SplitTextWithRegex(t, p.sep), p.rest, 1, <<>>, <<>>)

\* process_pdf_text(text)
process_pdf_text(t) == SplitText(t, Separators)

----------------------------------------------------------------------------
(* The script of src/app.py, one run per rerun of a session *)

Sessions == {"s1", "s2"}
Keys == {"k1", "k2"}
NoKey == ""
None == "None"
NoRetrievers == [docs |-> <<>>, key |-> NoKey, faiss |-> "absent"]

\* uploaded PDFs: the text of each page, or a file PdfReader cannot read
F1 == [readable |-> TRUE, pages |-> << <<"a","b"," ","c","d"," ","e","f">> >>]
F2 == [readable |-> TRUE, pages |-> << <<"a","b">>, <<"g","h">> >>]
F3 == [readable |-> TRUE, pages |-> << <<" ">> >>]
F4 == [readable |-> FALSE, pages |-> <<>>]
Files == {F1, F2, F3, F4}

RECURSIVE Uploads(_)
Uploads(n) ==
    IF n = 0 THEN {<<>>}
    ELSE LET S == Uploads(n - 1)
         IN S \cup {Append(u, f) : u \in {x \in S : Len(x) = n - 1}, f \in Files}

\* full_text += page.extract_text() + "\n\n"
RECURSIVE FullText(_)
FullText(pages) ==
    IF pages = <<>> THEN <<>>
    ELSE pages[1] \o <<NL, NL>> \o FullText(Tail(pages))

\* extract_text_from_pdf(pdf_file)
extract_text_from_pdf(f) ==
    IF ~f.readable THEN <<>>
    ELSE IF Strip(FullText(f.pages)) /= <<>>
         THEN process_pdf_text(FullText(f.pages))
         ELSE <<>>

\* extracted_texts of each file of the model
Extracted == [f \in Files |-> extract_text_from_pdf(f)]

\* the upload loop: pdf_docs.extend(extracted_texts) for each file in turn
RECURSIVE ExtendAll(_)
ExtendAll(files) ==
    IF files = <<>> THEN <<>>
    ELSE Extracted[files[1]] \o ExtendAll(Tail(files))

\* the uploads tried while two sessions run together
AllUploads == {<<>>, <<F1>>, <<F2>>, <<F3>>, <<F4>>, <<F1, F2>>}

\* the uploads tried by one session alone
LoneUploads == Uploads(MaxUploadFiles)

NewCorpusPatched(old, pdf_docs) == old \o pdf_docs

\* st.session_state.processed_docs = pdf_docs
NewCorpus(old, pdf_docs) == pdf_docs

NoGuard(docs) == FALSE

\* if not st.session_state.processed_docs: st.info(...); st.stop()
EmptyCorpus(docs) == docs = <<>>

\* the st.* call that reports each way a run ends
Level(outcome) ==
    CASE outcome = "need_key" -> "warning"
      [] outcome = "no_text" -> "error"
      [] outcome = "need_upload" -> "info"
      [] outcome = "init_failed" -> "error"
      [] OTHER -> "none"

(* @st.cache_resource: one cache for all sessions of the process.  A call  *)
(* hashes its arguments into a value key, reads the cache, and on a miss   *)
(* takes the key's compute lock, reads again, runs the body, writes the    *)
(* result and releases the lock.  An exception in the body writes nothing. *)

\* the arguments st.cache_resource hashes: _docs is skipped for its underscore
MakeValueKey(docs, api_key) == api_key

LockFreeAlways(k) == TRUE

\* compute_value_lock(value_key) can be taken
LockFree(k) == lock[k] = None

CacheHitNever(k) == FALSE

\* cache.read_result(value_key) finds an entry
CacheHit(k) == cache[k] /= NoRetrievers

CacheAfterFailureKeepsPartial(c, k, partial) == [c EXCEPT ![k] = partial]

\* the exception leaves initialize_retrievers before write_result
CacheAfterFailure(c, k, partial) == c

\* what initialize_retrievers returns: the three retrievers over one corpus
Retrievers(docs, api_key, faiss) ==
    [docs |-> docs, key |-> api_key, faiss |-> faiss]

NoUpload == [key |-> NoKey, files |-> <<>>, prev |-> <<>>]

Fresh == [api_key |-> NoKey, partial |-> NoRetrievers,
          retr |-> NoRetrievers, how |-> "none", blocked |-> FALSE,
          outcome |-> "none"]

AppIdle ==
    /\ processed_docs = [s \in Sessions |-> <<>>]
    /\ pc = [s \in Sessions |-> "done"]
    /\ loc = [s \in Sessions |-> Fresh]
    /\ cache = [k \in Keys |-> NoRetrievers]
    /\ lock = [k \in Keys |-> None]
    /\ bodyRuns = {}
    /\ failures = 0
    /\ upload = [s \in Sessions |-> NoUpload]

ChunkerIdle ==
    /\ text = <<>>
    /\ chunks = <<>>
    /\ cpc = "input"

RankingIdle ==
    /\ rdocs = <<>>
    /\ weights = <<0, 0>>
    /\ rquery = <<>>
    /\ scores = <<>>
    /\ bm25_top = <<>>
    /\ faiss_top = <<>>
    /\ ensemble = <<>>
    /\ rpc = "idle"

Init == AppIdle /\ ChunkerIdle /\ RankingIdle

\* st.stop(), or the end of the script: the run's variables are gone, what
\* it reported stays on the page
Stop(s, outcome) ==
    /\ pc' = [pc EXCEPT ![s] = "done"]
    /\ loc' = [loc EXCEPT ![s] = [Fresh EXCEPT !.outcome = outcome]]

\* lines 20-109: key prompt, upload handling, empty-corpus guard
StartRun(s, key, files) ==
    /\ pc[s] = "done"
    /\ LET run == [Fresh EXCEPT !.api_key = key]
           pdf_docs == ExtendAll(files)
           docs == IF files /= <<>> /\ pdf_docs /= <<>>
                   THEN NewCorpus(processed_docs[s], pdf_docs)
                   ELSE processed_docs[s]
       IN IF key = NoKey
          THEN Stop(s, "need_key") /\ UNCHANGED processed_docs
          ELSE IF files /= <<>> /\ pdf_docs = <<>>
          THEN Stop(s, "no_text") /\ UNCHANGED processed_docs
          ELSE /\ processed_docs' = [processed_docs EXCEPT ![s] = docs]
               /\ IF EmptyCorpus(docs)
                  THEN Stop(s, "need_upload")
                  ELSE /\ pc' = [pc EXCEPT ![s] = "lookup"]
                       /\ loc' = [loc EXCEPT ![s] = run]
    /\ UNCHANGED <<cache, lock, bodyRuns, failures>>
    /\ UNCHANGED <<cvars, rvars>>

ValueKey(s) == MakeValueKey(processed_docs[s], loc[s].api_key)

\* _get_or_create_cached_value: the first read, without the lock
Lookup(s) ==
    /\ pc[s] = "lookup"
    /\ IF CacheHit(ValueKey(s))
       THEN /\ loc' = [loc EXCEPT ![s].retr = cache[ValueKey(s)],
                                  ![s].how = "hit"]
            /\ pc' = [pc EXCEPT ![s] = "search"]
       ELSE /\ pc' = [pc EXCEPT ![s] = "lock"]
            /\ UNCHANGED loc
    /\ UNCHANGED <<processed_docs, cache, lock, bodyRuns, failures>>
    /\ UNCHANGED <<cvars, rvars, upload>>

\* the compute lock is held by another run: this one waits
Block(s) ==
    /\ pc[s] = "lock"
    /\ ~LockFree(ValueKey(s))
    /\ ~loc[s].blocked
    /\ loc' = [loc EXCEPT ![s].blocked = TRUE]
    /\ UNCHANGED <<processed_docs, pc, cache, lock, bodyRuns, failures>>
    /\ UNCHANGED <<cvars, rvars, upload>>

\* _handle_cache_miss: take the lock, read again, enter the body on a miss
Acquire(s) ==
    /\ pc[s] = "lock"
    /\ LockFree(ValueKey(s))
    /\ IF CacheHit(ValueKey(s))
       THEN /\ loc' = [loc EXCEPT ![s].retr = cache[ValueKey(s)],
                                  ![s].how = "hit"]
            /\ pc' = [pc EXCEPT ![s] = "search"]
            /\ UNCHANGED lock
       ELSE /\ lock' = [lock EXCEPT ![ValueKey(s)] = s]
            /\ pc' = [pc EXCEPT ![s] = "bm25"]
            /\ UNCHANGED loc
    /\ UNCHANGED <<processed_docs, cache, bodyRuns, failures>>
    /\ UNCHANGED <<cvars, rvars, upload>>

\* bm25_retriever = BM25Retriever.from_texts(_docs)
BuildBM25(s) ==
    /\ pc[s] = "bm25"
    /\ loc' = [loc EXCEPT ![s].partial =
                   Retrievers(processed_docs[s], loc[s].api_key, "absent")]
    /\ pc' = [pc EXCEPT ![s] = "faiss"]
    /\ UNCHANGED <<processed_docs, cache, lock, bodyRuns, failures>>
    /\ UNCHANGED <<cvars, rvars, upload>>

Bump(log, p, field) ==
    IF \E e \in log : e.pair = p
    THEN {IF e.pair = p THEN [e EXCEPT ![field] = @ + 1] ELSE e : e \in log}
    ELSE log \cup {[[pair |-> p, ok |-> 0, failed |-> 0] EXCEPT ![field] = 1]}

\* FAISS.from_texts(_docs, embedding) succeeds: the body returns, the result
\* is written to the cache and the lock released
BuildFAISS(s) ==
    /\ pc[s] = "faiss"
    /\ LET r == Retrievers(processed_docs[s], loc[s].api_key, "built")
       IN /\ cache' = [cache EXCEPT ![ValueKey(s)] = r]
          /\ loc' = [loc EXCEPT ![s].retr = r, ![s].how = "built",
                                ![s].partial = NoRetrievers]
    /\ lock' = [k \in Keys |-> IF lock[k] = s THEN None ELSE lock[k]]
    /\ bodyRuns' = Bump(bodyRuns, <<processed_docs[s], loc[s].api_key>>, "ok")
    /\ pc' = [pc EXCEPT ![s] = "search"]
    /\ UNCHANGED <<processed_docs, failures>>
    /\ UNCHANGED <<cvars, rvars, upload>>

\* FAISS.from_texts raises: the exception leaves the body, the lock is
\* released, lines 138-140 report it and stop the run
BuildFAISSFails(s) ==
    /\ pc[s] = "faiss"
    /\ failures < MaxFailures
    /\ failures' = failures + 1
    /\ cache' = CacheAfterFailure(cache, ValueKey(s),
                   [loc[s].partial EXCEPT !.faiss = "partial"])
    /\ lock' = [k \in Keys |-> IF lock[k] = s THEN None ELSE lock[k]]
    /\ bodyRuns' = Bump(bodyRuns, <<processed_docs[s], loc[s].api_key>>,
                        "failed")
    /\ Stop(s, "init_failed")
    /\ UNCHANGED processed_docs
    /\ UNCHANGED <<cvars, rvars, upload>>

\* lines 142-170: the query box and, with a query, the three result columns
Search(s, hasQuery) ==
    /\ pc[s] = "search"
    /\ Stop(s, IF hasQuery THEN "results" ELSE "no_query")
    /\ UNCHANGED <<processed_docs, cache, lock, bodyRuns, failures>>
    /\ UNCHANGED <<cvars, rvars, upload>>

\* a rerun of the script, started by any widget of the page
Rerun(s, key, files) == StartRun(s, key, files) /\ UNCHANGED upload

Next ==
    \/ \E s \in Sessions, key \in Keys \cup {NoKey}, files \in AllUploads :
          Rerun(s, key, files)
    \/ \E s \in Sessions : Lookup(s)
    \/ \E s \in Sessions : Block(s)
    \/ \E s \in Sessions : Acquire(s)
    \/ \E s \in Sessions : BuildBM25(s)
    \/ \E s \in Sessions : BuildFAISS(s)
    \/ \E s \in Sessions : BuildFAISSFails(s)
    \/ \E s \in Sessions, hasQuery \in BOOLEAN : Search(s, hasQuery)

Spec == Init /\ [][Next]_vars

----------------------------------------------------------------------------
(* One session with the upload of each run recorded *)

\* a rerun of the script whose uploaded files and starting corpus are logged
RecordedRerun(s, key, files) ==
    /\ StartRun(s, key, files)
    /\ upload' = [upload EXCEPT ![s] =
                     [key |-> key, files |-> files,
                      prev |-> processed_docs[s]]]

\* one session, one credential, the embedding provider answering
UploadNext ==
    \/ \E key \in {"k1", NoKey}, files \in LoneUploads :
          RecordedRerun("s1", key, files)
    \/ Lookup("s1")
    \/ Acquire("s1")
    \/ BuildBM25("s1")
    \/ BuildFAISS("s1")
    \/ \E hasQuery \in BOOLEAN : Search("s1", hasQuery)

SpecUpload == Init /\ [][UploadNext]_vars

----------------------------------------------------------------------------
(* Claims about the index cache and the script, checked under Spec *)

InBody(s) == pc[s] \in {"bm25", "faiss"}

RECURSIVE SumOver(_, _, _)
SumOver(log, k, field) ==
    IF log = {} THEN 0
    ELSE LET e == CHOOSE x \in log : TRUE
         IN (IF e.pair[2] = k THEN e[field] ELSE 0)
            + SumOver(log \ {e}, k, field)

OkRuns(k) == SumOver(bodyRuns, k, "ok")
FailedRuns(k) == SumOver(bodyRuns, k, "failed")

\* C1: the retrievers a search uses were built from the session's current
\* corpus and the current API key.
C1_RetrieversMatchCorpusAndKey ==
    \A s \in Sessions :
        pc[s] = "search" =>
            /\ loc[s].retr.docs = processed_docs[s]
            /\ loc[s].retr.key = loc[s].api_key

\* C2 as stated: the build body runs at most once per corpus+credential
\* pair over the process lifetime.
C2_BodyOncePerPair ==
    \A e \in bodyRuns : e.ok + e.failed <= 1

\* C2 amended: the build body completes at most once per credential, hence
\* at most once per corpus+credential pair; its result stays cached, and no
\* run enters the body for a credential whose build has succeeded.  Only a
\* build that raised is run again.
C2_OneSuccessfulBuildPerKey ==
    /\ \A k \in Keys :
          /\ OkRuns(k) <= 1
          /\ OkRuns(k) = 1 <=> CacheHit(k)
    /\ \A s \in Sessions : InBody(s) => OkRuns(ValueKey(s)) = 0
    /\ \A e \in bodyRuns : e.ok + e.failed <= 1 + failures

C2_SecondCallHits ==
    \E s \in Sessions :
        /\ pc[s] = "search"
        /\ loc[s].how = "hit"
        /\ loc[s].retr.docs = processed_docs[s]
        /\ \E e \in bodyRuns :
              /\ e.pair = <<processed_docs[s], loc[s].api_key>>
              /\ e.ok = 1
              /\ e.failed = 0

\* C3 as stated: a requester that found the build of its key in flight
\* waits for it and never runs the build body itself.
C3_WaiterNeverBuilds ==
    \A s \in Sessions :
        loc[s].blocked => ~InBody(s) /\ loc[s].how /= "built"

\* C3 amended: at most one session at a time is in the build body of a
\* key, and it holds the key's lock; a requester that waited receives the
\* cached result of the build when that build succeeded, and runs the body
\* itself only after a build of that key has raised.
C3_SingleFlight ==
    /\ \A s, t \in Sessions :
          InBody(s) /\ InBody(t) /\ ValueKey(s) = ValueKey(t) => s = t
    /\ \A s \in Sessions :
          InBody(s) => lock[ValueKey(s)] = s /\ ~CacheHit(ValueKey(s))
    /\ \A s \in Sessions :
          loc[s].blocked /\ loc[s].how = "hit" =>
              loc[s].retr = cache[ValueKey(s)]
    /\ \A s \in Sessions :
          loc[s].blocked /\ (InBody(s) \/ loc[s].how = "built") =>
              FailedRuns(ValueKey(s)) >= 1

C3_WaiterGotResult ==
    \E s \in Sessions :
        /\ loc[s].blocked
        /\ pc[s] = "search"
        /\ loc[s].how = "hit"
        /\ OkRuns(ValueKey(s)) = 1

\* C4 as stated: a run that gets past the key prompt with an empty corpus
\* ends in an error.
C4_EmptyCorpusRaisesError ==
    \A s \in Sessions :
        /\ pc[s] = "done"
        /\ loc[s].outcome \notin {"none", "need_key"}
        /\ processed_docs[s] = <<>>
        => Level(loc[s].outcome) = "error"

\* C4 amended: a run with an empty corpus never reaches the index build or
\* the search: it stops at the key prompt, at the failed extraction, or at
\* the guard, which reports with st.info and st.stop, not with an error.
C4_EmptyCorpusStopsBeforeSearch ==
    \A s \in Sessions :
        /\ processed_docs[s] = <<>> =>
              /\ pc[s] = "done"
              /\ loc[s].outcome \in {"none", "need_key", "no_text", "need_upload"}
              /\ loc[s].retr = NoRetrievers
        /\ loc[s].outcome = "need_upload" =>
              /\ processed_docs[s] = <<>>
              /\ Level(loc[s].outcome) = "info"

C4_StoppedAtGuard ==
    \E s \in Sessions :
        /\ loc[s].outcome = "need_upload"
        /\ pc[s] = "done"
        /\ processed_docs[s] = <<>>
        /\ \E k \in Keys : CacheHit(k)

\* C5: a build whose embedding call raised leaves nothing behind: the cache
\* and every run hold only complete retrievers, the failed run reports the
\* error and stops without retrievers, and every entry into the body finds
\* no partial result and no cache entry.
C5_FailedBuildLeavesNothing ==
    /\ \A k \in Keys : CacheHit(k) => cache[k].faiss = "built"
    /\ \A s \in Sessions :
          /\ loc[s].retr /= NoRetrievers => loc[s].retr.faiss = "built"
          /\ loc[s].outcome = "init_failed" =>
                /\ pc[s] = "done"
                /\ loc[s].retr = NoRetrievers
                /\ loc[s].partial = NoRetrievers
                /\ Level(loc[s].outcome) = "error"
          /\ pc[s] = "bm25" =>
                /\ loc[s].partial = NoRetrievers
                /\ ~CacheHit(ValueKey(s))
          /\ pc[s] = "search" => loc[s].retr /= NoRetrievers

C5_RetriedAfterFailure ==
    /\ \E s \in Sessions : loc[s].outcome = "init_failed"
    /\ \E e \in bodyRuns :
          /\ e.failed = 1
          /\ e.ok = 1
          /\ cache[e.pair[2]].docs = e.pair[1]

\* C10: a run that extracted at least one segment leaves the corpus equal
\* to the segments of its files in upload order, nothing of the earlier
\* corpus kept; a run whose files yielded no text stops with the earlier
\* corpus untouched.  (SpecUpload)
C10_CorpusReplacedWholesale ==
    \A s \in Sessions :
        LET files == upload[s].files
            pdf_docs == ExtendAll(files)
            ran == upload[s].key /= NoKey
        IN /\ ran /\ pdf_docs /= <<>> => processed_docs[s] = pdf_docs
           /\ ran /\ files /= <<>> /\ pdf_docs = <<>> =>
                 /\ processed_docs[s] = upload[s].prev
                 /\ pc[s] = "done"
                 /\ loc[s].outcome = "no_text"
           /\ ~ran \/ files = <<>> => processed_docs[s] = upload[s].prev

C10_ReplacedEarlierCorpus ==
    \E s \in Sessions :
        /\ upload[s].key /= NoKey
        /\ Len(upload[s].files) = 2
        /\ upload[s].prev /= <<>>
        /\ processed_docs[s] = ExtendAll(upload[s].files)
        /\ Len(processed_docs[s]) = 4
        /\ \A i \in 1..Len(upload[s].prev) :
              \A j \in 1..Len(processed_docs[s]) :
                  upload[s].prev[i] /= processed_docs[s][j]

----------------------------------------------------------------------------
(* The chunker applied to every text of at most MaxLen characters *)

RECURSIVE TextsUpTo(_)
TextsUpTo(n) ==
    IF n = 0 THEN {<<>>}
    ELSE LET S == TextsUpTo(n - 1)
         IN S \cup {Append(s, c) : s \in {x \in S : Len(x) = n - 1}, c \in Alphabet}

ChunkInit ==
    /\ text \in TextsUpTo(MaxLen)
    /\ chunks = <<>>
    /\ cpc = "input"
    /\ AppIdle
    /\ RankingIdle

ChunkText ==
    /\ cpc = "input"
    /\ chunks' = process_pdf_text(text)
    /\ cpc' = "split"
    /\ UNCHANGED <<text, avars, rvars>>

ChunkNext == ChunkText

SpecChunk == ChunkInit /\ [][ChunkNext]_vars

\* C9: every chunk process_pdf_text returns is at most chunk_size long, for
\* every text, also one with no separator in it.
C9_ChunkBound ==
    cpc = "split" => \A i \in 1..Len(chunks) : Len(chunks[i]) <= chunk_size

C9_HardSplit ==
    /\ cpc = "split"
    /\ Len(text) > chunk_size
    /\ \A i \in 1..Len(text) : text[i] = "a"
    /\ Len(chunks) = 2
    /\ Len(chunks[1]) = chunk_size

----------------------------------------------------------------------------
(* The three retrievers of initialize_retrievers answering one query *)

k == 3               \* bm25_retriever.k = 3, search_kwargs={"k": 3}
rrf_c == 60          \* EnsembleRetriever.c, the rank offset of the fusion

\* weights=[0.3, 0.7], in tenths
weights_default == <<3, 7>>
WeightChoices == {weights_default, <<10, 0>>, <<0, 10>>}

Queries == { <<"a","b">>, <<"z","z">> }
ScoreVals == {-1, 0, 1}

\* every corpus an upload of the model's files leaves in processed_docs
Corpora == {ExtendAll(u) : u \in Uploads(MaxRankFiles)} \ {<<>>}

Min(a, b) == IF a < b THEN a ELSE b
Take(seq, n) == SubSeq(seq, 1, Min(n, Len(seq)))
Reverse(seq) == [i \in 1..Len(seq) |-> seq[Len(seq) + 1 - i]]
Range(seq) == {seq[i] : i \in 1..Len(seq)}
\* the orderings of the set S by key descending, equal keys in any order
RECURSIVE SortedOrders(_, _)
SortedOrders(S, key) ==
    IF S = {} THEN {<<>>}
    ELSE UNION {{<<x>> \o p : p \in SortedOrders(S \ {x}, key)} :
                   x \in {y \in S : \A z \in S : key[y] >= key[z]}}

\* str.split(): the words between runs of whitespace
RECURSIVE Words(_, _, _, _)
Words(t, i, cur, acc) ==
    IF i > Len(t)
    THEN IF cur = <<>> THEN acc ELSE acc \cup {cur}
    ELSE IF t[i] \in Whitespace
         THEN Words(t, i + 1, <<>>, IF cur = <<>> THEN acc ELSE acc \cup {cur})
         ELSE Words(t, i + 1, Append(cur, t[i]), acc)

\* default_preprocessing_func of BM25Retriever
Tokens(t) == Words(t, 1, <<>>, {})

SharesTerm(doc, q) == Tokens(doc) \cap Tokens(q) /= {}

\* BM25Okapi.get_scores: a chunk holding no query term scores exactly 0 and
\* equal chunks score equally; the score of a chunk that holds one is a sum
\* of idf-weighted term frequencies, of either sign
BM25Scores(docs, q) ==
    {sc \in [1..Len(docs) -> ScoreVals] :
        /\ \A i \in 1..Len(docs) : ~SharesTerm(docs[i], q) => sc[i] = 0
        /\ \A i, j \in 1..Len(docs) : docs[i] = docs[j] => sc[i] = sc[j]}

\* np.argsort(scores): ascending, equal scores in the order the sort leaves
ArgSorts(sc) == {Reverse(p) : p \in SortedOrders(DOMAIN sc, sc)}

TopNAscending(sc, n) == {Take(p, n) : p \in ArgSorts(sc)}

\* BM25Okapi.get_top_n: np.argsort(scores)[::-1][:n]
get_top_n(sc, n) == {Take(Reverse(p), n) : p \in ArgSorts(sc)}

\* FAISS similarity_search(query, k): the k nearest vectors, in the order
\* the embedding provider's vectors give
similarity_search(docs, n) ==
    {Take(p, n) : p \in SortedOrders(1..Len(docs), [i \in 1..Len(docs) |-> 0])}

Docs(idx) == [i \in 1..Len(idx) |-> rdocs[idx[i]]]

\* page contents in order of first appearance
RECURSIVE Unique(_)
Unique(seq) ==
    IF seq = <<>> THEN <<>>
    ELSE LET u == Unique(SubSeq(seq, 1, Len(seq) - 1))
         IN IF seq[Len(seq)] \in Range(u) THEN u ELSE Append(u, seq[Len(seq)])

RECURSIVE Product(_, _)
Product(lo, hi) == IF lo > hi THEN 1 ELSE lo * Product(lo + 1, hi)

\* 1 / (rank + c), over the common denominator of the ranks 1..k
RRFDenominator == Product(1 + rrf_c, k + rrf_c)
RRFTerm(rank) == RRFDenominator \div (rank + rrf_c)

RECURSIVE ListScore(_, _, _)
ListScore(list, w, content) ==
    IF list = <<>> THEN 0
    ELSE ListScore(SubSeq(list, 1, Len(list) - 1), w, content)
         + (IF list[Len(list)] = content THEN w * RRFTerm(Len(list)) ELSE 0)

RRFScoreUnweighted(lists, w, content) ==
    ListScore(lists[1], 1, content) + ListScore(lists[2], 1, content)

\* rrf_score[doc.page_content] += weight / (rank + c), over both lists
RRFScore(lists, w, content) ==
    ListScore(lists[1], w[1], content) + ListScore(lists[2], w[2], content)

AllDocumentsRepeated(lists) == lists[1] \o lists[2]

\* the documents of all lists, one per page content
AllDocuments(lists) == Unique(lists[1] \o lists[2])

\* EnsembleRetriever.weighted_reciprocal_rank: every distinct page content
\* of the lists, by fused score descending; equal scores in the order the
\* library's sort meets them
weighted_reciprocal_rank(lists, w) ==
    LET all == AllDocuments(lists)
        rrf_score == [i \in 1..Len(all) |-> RRFScore(lists, w, all[i])]
    IN {[i \in 1..Len(all) |-> all[p[i]]] :
           p \in SortedOrders(1..Len(all), rrf_score)}

RankInit ==
    /\ rdocs \in Corpora
    /\ weights \in WeightChoices
    /\ rquery = <<>>
    /\ scores = <<>>
    /\ bm25_top = <<>>
    /\ faiss_top = <<>>
    /\ ensemble = <<>>
    /\ rpc = "built"
    /\ AppIdle
    /\ ChunkerIdle

\* bm25_retriever.get_relevant_documents(search_query)
BM25Query ==
    /\ rpc = "built"
    /\ \E q \in Queries : \E sc \in BM25Scores(rdocs, q) :
          /\ rquery' = q
          /\ scores' = sc
          /\ bm25_top' \in get_top_n(sc, k)
    /\ rpc' = "bm25"
    /\ UNCHANGED <<rdocs, weights, faiss_top, ensemble, cvars, avars>>

\* faiss_retriever.get_relevant_documents(search_query)
FAISSQuery ==
    /\ rpc = "bm25"
    /\ faiss_top' \in similarity_search(rdocs, k)
    /\ rpc' = "faiss"
    /\ UNCHANGED <<rdocs, weights, rquery, scores, bm25_top, ensemble, cvars,
                   avars>>

\* ensemble_retriever.get_relevant_documents(search_query)
EnsembleQuery ==
    /\ rpc = "faiss"
    /\ ensemble' \in weighted_reciprocal_rank(
                         <<Docs(bm25_top), Docs(faiss_top)>>, weights)
    /\ rpc' = "done"
    /\ UNCHANGED <<rdocs, weights, rquery, scores, bm25_top, faiss_top, cvars,
                   avars>>

RankNext == BM25Query \/ FAISSQuery \/ EnsembleQuery

SpecRank == RankInit /\ [][RankNext]_vars

NoRepeat(seq) == \A i, j \in 1..Len(seq) : seq[i] = seq[j] => i = j
Lexical == Docs(bm25_top)
Semantic == Docs(faiss_top)

PrefixThenRest(fused, first, other) ==
    /\ Len(fused) >= Len(first)
    /\ SubSeq(fused, 1, Len(first)) = first
    /\ Range(SubSeq(fused, Len(first) + 1, Len(fused)))
          = Range(other) \ Range(first)
    /\ NoRepeat(fused)

Returned == Range(bm25_top)

\* C8 as stated: the lexical list holds only chunks that share a term with
\* the query and score nonzero, by score descending, equal scores in
\* original chunk order.
C8_OnlyMatchingInChunkOrder ==
    rpc \in {"bm25", "faiss", "done"} =>
        /\ \A i \in 1..Len(bm25_top) :
              /\ scores[bm25_top[i]] /= 0
              /\ SharesTerm(rdocs[bm25_top[i]], rquery)
        /\ \A i, j \in 1..Len(bm25_top) :
              i < j =>
                  \/ scores[bm25_top[i]] > scores[bm25_top[j]]
                  \/ /\ scores[bm25_top[i]] = scores[bm25_top[j]]
                     /\ bm25_top[i] < bm25_top[j]

\* C8 amended: the lexical list holds min(k, number of chunks) different
\* chunks by score descending, whatever the scores: no omitted chunk scores
\* higher than a returned one, and chunks that score 0 or share no term
\* with the query fill the list when fewer than k score higher.
C8_TopKByScore ==
    rpc \in {"bm25", "faiss", "done"} =>
        /\ Len(bm25_top) = Min(k, Len(rdocs))
        /\ NoRepeat(bm25_top)
        /\ Returned \subseteq 1..Len(rdocs)
        /\ \A i, j \in 1..Len(bm25_top) :
              i < j => scores[bm25_top[i]] >= scores[bm25_top[j]]
        /\ \A i \in Returned : \A j \in (1..Len(rdocs)) \ Returned :
              scores[i] >= scores[j]

C8_ZeroScoreChunkReturned ==
    /\ rpc = "bm25"
    /\ Len(rdocs) > k
    /\ Len(bm25_top) = k
    /\ \E i \in 1..k :
          /\ ~SharesTerm(rdocs[bm25_top[i]], rquery)
          /\ scores[bm25_top[i]] = 0
    /\ \E i \in 1..k : scores[bm25_top[i]] > 0

====
